---- MODULE Spec2Model ----
(***************************************************************************)
(* Model of src/main.cpp: a 3x3 three-in-a-row game between a user and a   *)
(* computer opponent.  The board is int board[3][3]; a cell holds EMPTY,   *)
(* USER or COMPUTER.  isGameOver classifies a board, playerCanWin looks    *)
(* for a cell that completes a line, and ai_random / ai_smart / ai_genious *)
(* claim one cell for the computer.  main alternates the two players.      *)
(*                                                                         *)
(* Spec     is the game loop of main.                                      *)
(* FairSpec is Spec with the loop's steps taken whenever they can be.      *)
(* SpecFn   calls each function once on an arbitrary board.                *)
(* SpecLoop calls one strategy on an arbitrary board, with the sampling    *)
(*          loop of ai_random taken one iteration at a time.               *)
(***************************************************************************)
EXTENDS Integers, FiniteSets, Sequences, TLC

----------------------------------------------------------------------------
(* enum {EMPTY=0, USER=7, COMPUTER=11} *)
EMPTY == 0
USER == 7
COMPUTER == 11

(* enum {IN_PROGRESS=0, USER_WON=USER, COMPUTER_WON=COMPUTER, DRAW} *)
IN_PROGRESS == 0
USER_WON == USER
COMPUTER_WON == COMPUTER
DRAW == COMPUTER_WON + 1

(* enum {RANDOM, SMART, GENIOUS} *)
RANDOM == 0
SMART == 1
GENIOUS == 2

(* Largest value of the int parameter `strategy` that is tried; the values *)
(* above GENIOUS take the default branch of nextComputerMove.              *)
MaxStrategy == 3

Idx == 0..2
Marks == {EMPTY, USER, COMPUTER}
Players == {USER, COMPUTER}
Strategies == 0..MaxStrategy

(* int board[3][3] *)
Boards == [Idx -> [Idx -> Marks]]
EmptyBoard == [r \in Idx |-> [c \in Idx |-> EMPTY]]

(* struct Cell {row, col}; Cell(-1,-1) is "no cell" *)
Cell(r, c) == <<r, c>>
NoCell == Cell(-1, -1)

(* board[r][c] = v *)
Put(b, r, c, v) == [b EXCEPT ![r][c] = v]

----------------------------------------------------------------------------
(* PlayerWon with the last alternative (B1 with A2 and C0) left out *)
PlayerWon_NoAntiDiagonal(b, player) ==
    \/ (b[0][1] = player /\ b[0][0] = player /\ b[0][2] = player)
    \/ (b[1][0] = player /\ b[0][0] = player /\ b[2][0] = player)
    \/ (b[2][1] = player /\ b[2][0] = player /\ b[2][2] = player)
    \/ (b[1][2] = player /\ b[0][2] = player /\ b[2][2] = player)
    \/ (b[1][1] = player /\
          (\/ (b[0][1] = player /\ b[2][1] = player)
           \/ (b[1][0] = player /\ b[1][2] = player)
           \/ (b[0][0] = player /\ b[2][2] = player)))

(* PlayerWon with the main diagonal (B1 with A0 and C2) left out *)
PlayerWon_NoMainDiagonal(b, player) ==
    \/ (b[0][1] = player /\ b[0][0] = player /\ b[0][2] = player)
    \/ (b[1][0] = player /\ b[0][0] = player /\ b[2][0] = player)
    \/ (b[2][1] = player /\ b[2][0] = player /\ b[2][2] = player)
    \/ (b[1][2] = player /\ b[0][2] = player /\ b[2][2] = player)
    \/ (b[1][1] = player /\
          (\/ (b[0][1] = player /\ b[2][1] = player)
           \/ (b[1][0] = player /\ b[1][2] = player)
           \/ (b[2][0] = player /\ b[0][2] = player)))

(* isGameOver, lines 331-347: the test made for one player *)
PlayerWon(b, player) ==
    \/ (b[0][1] = player /\ b[0][0] = player /\ b[0][2] = player)
    \/ (b[1][0] = player /\ b[0][0] = player /\ b[2][0] = player)
    \/ (b[2][1] = player /\ b[2][0] = player /\ b[2][2] = player)
    \/ (b[1][2] = player /\ b[0][2] = player /\ b[2][2] = player)
    \/ (b[1][1] = player /\
          (\/ (b[0][1] = player /\ b[2][1] = player)
           \/ (b[1][0] = player /\ b[1][2] = player)
           \/ (b[0][0] = player /\ b[2][2] = player)
           \/ (b[2][0] = player /\ b[0][2] = player)))

(* moreMoves with both loops stopping one short (< 2 for < 3) *)
moreMoves_OffByOne(b) == \E col \in 0..1 : \E row \in 0..1 : b[row][col] = EMPTY

(* moreMoves initialised to true instead of false (line 350) *)
moreMoves_InitTrue(b) == TRUE

(* isGameOver, lines 350-355 *)
moreMoves(b) == \E col \in Idx : \E row \in Idx : b[row][col] = EMPTY

(* isGameOver returning IN_PROGRESS on both branches of line 357 *)
isGameOver_NeverDraw(b) ==
    IF PlayerWon(b, USER) THEN USER
    ELSE IF PlayerWon(b, COMPUTER) THEN COMPUTER
    ELSE IN_PROGRESS

(* isGameOver: USER is tested first, then COMPUTER, then the free cells *)
isGameOver(b) ==
    IF PlayerWon(b, USER) THEN USER
    ELSE IF PlayerWon(b, COMPUTER) THEN COMPUTER
    ELSE IF moreMoves(b) THEN IN_PROGRESS
    ELSE DRAW

----------------------------------------------------------------------------
(* playerCanWin, lines 197-204: rows r..2 *)
RECURSIVE ScanRows(_, _, _)
ScanRows(b, target, r) ==
    IF r > 2 THEN NoCell
    ELSE LET sum == b[r][0] + b[r][1] + b[r][2]
             hit == IF sum # target THEN NoCell
                    ELSE IF b[r][0] = EMPTY THEN Cell(r, 0)
                    ELSE IF b[r][1] = EMPTY THEN Cell(r, 1)
                    ELSE IF b[r][2] = EMPTY THEN Cell(r, 2)
                    ELSE NoCell
         IN  IF hit # NoCell THEN hit ELSE ScanRows(b, target, r + 1)

(* playerCanWin, lines 207-214: columns c..2 *)
RECURSIVE ScanCols(_, _, _)
ScanCols(b, target, c) ==
    IF c > 2 THEN NoCell
    ELSE LET sum == b[0][c] + b[1][c] + b[2][c]
             hit == IF sum # target THEN NoCell
                    ELSE IF b[0][c] = EMPTY THEN Cell(0, c)
                    ELSE IF b[1][c] = EMPTY THEN Cell(1, c)
                    ELSE IF b[2][c] = EMPTY THEN Cell(2, c)
                    ELSE NoCell
         IN  IF hit # NoCell THEN hit ELSE ScanCols(b, target, c + 1)

(* playerCanWin, lines 217-222 *)
ScanLtr(b, target) ==
    LET sum_ltr == b[0][0] + b[1][1] + b[2][2]
    IN  IF sum_ltr # target THEN NoCell
        ELSE IF b[0][0] = EMPTY THEN Cell(0, 0)
        ELSE IF b[1][1] = EMPTY THEN Cell(1, 1)
        ELSE IF b[2][2] = EMPTY THEN Cell(2, 2)
        ELSE NoCell

(* ScanRtl summing the main diagonal's corner board[0][0] for board[0][2] *)
ScanRtl_WrongCorner(b, target) ==
    LET sum_rtl == b[0][0] + b[1][1] + b[2][0]
    IN  IF sum_rtl # target THEN NoCell
        ELSE IF b[0][2] = EMPTY THEN Cell(0, 2)
        ELSE IF b[1][1] = EMPTY THEN Cell(1, 1)
        ELSE IF b[2][0] = EMPTY THEN Cell(2, 0)
        ELSE NoCell

(* playerCanWin, lines 223-228 *)
ScanRtl(b, target) ==
    LET sum_rtl == b[0][2] + b[1][1] + b[2][0]
    IN  IF sum_rtl # target THEN NoCell
        ELSE IF b[0][2] = EMPTY THEN Cell(0, 2)
        ELSE IF b[1][1] = EMPTY THEN Cell(1, 1)
        ELSE IF b[2][0] = EMPTY THEN Cell(2, 0)
        ELSE NoCell

(* playerCanWin scanning the columns before the rows *)
playerCanWin_ColsFirst(b, which) ==
    LET target == which * 2
        rows == ScanRows(b, target, 0)
        cols == ScanCols(b, target, 0)
        ltr  == ScanLtr(b, target)
        rtl  == ScanRtl(b, target)
    IN  IF cols # NoCell THEN cols
        ELSE IF rows # NoCell THEN rows
        ELSE IF ltr # NoCell THEN ltr
        ELSE IF rtl # NoCell THEN rtl
        ELSE NoCell

(* Cell playerCanWin(int board[][3], int which) *)
playerCanWin(b, which) ==
    LET target == which * 2
        rows == ScanRows(b, target, 0)
        cols == ScanCols(b, target, 0)
        ltr  == ScanLtr(b, target)
        rtl  == ScanRtl(b, target)
    IN  IF rows # NoCell THEN rows
        ELSE IF cols # NoCell THEN cols
        ELSE IF ltr # NoCell THEN ltr
        ELSE IF rtl # NoCell THEN rtl
        ELSE NoCell

(* userCanWin asking for the wrong player *)
userCanWin_WrongPlayer(b) == playerCanWin(b, COMPUTER)

userCanWin(b) == playerCanWin(b, USER)

(* computerCanWin asking for the wrong player *)
computerCanWin_WrongPlayer(b) == playerCanWin(b, USER)

computerCanWin(b) == playerCanWin(b, COMPUTER)

----------------------------------------------------------------------------
(* The strategies write the board in place; each is modelled as the set of *)
(* boards the call can leave behind when it returns.                       *)

(* ai_random sampling with rand() % 2: row 2 and column 2 are never tried *)
ai_random_Mod2(b) ==
    { Put(b, row, col, COMPUTER) :
        <<row, col>> \in { rc \in (0..1) \X (0..1) : b[rc[1]][rc[2]] = EMPTY } }

(* ai_random: rand() % 3 for row and column until the cell is EMPTY; the   *)
(* call returns only with a sampled cell that was EMPTY.                   *)
ai_random(b) ==
    { Put(b, row, col, COMPUTER) :
        <<row, col>> \in { rc \in Idx \X Idx : b[rc[1]][rc[2]] = EMPTY } }

(* ai_smart trying the corners column by column: (0,0), (2,0), (0,2), (2,2) *)
ai_smart_CornerOrder(b) ==
    IF b[1][1] = EMPTY THEN {Put(b, 1, 1, COMPUTER)}
    ELSE IF b[0][0] = EMPTY THEN {Put(b, 0, 0, COMPUTER)}
    ELSE IF b[2][0] = EMPTY THEN {Put(b, 2, 0, COMPUTER)}
    ELSE IF b[0][2] = EMPTY THEN {Put(b, 0, 2, COMPUTER)}
    ELSE IF b[2][2] = EMPTY THEN {Put(b, 2, 2, COMPUTER)}
    ELSE ai_random(b)

(* ai_smart: centre, else first free corner, else ai_random; on the        *)
(* fallback row = col = -1 and the final write is skipped.                 *)
ai_smart(b) ==
    IF b[1][1] = EMPTY THEN {Put(b, 1, 1, COMPUTER)}
    ELSE IF b[0][0] = EMPTY THEN {Put(b, 0, 0, COMPUTER)}
    ELSE IF b[0][2] = EMPTY THEN {Put(b, 0, 2, COMPUTER)}
    ELSE IF b[2][0] = EMPTY THEN {Put(b, 2, 0, COMPUTER)}
    ELSE IF b[2][2] = EMPTY THEN {Put(b, 2, 2, COMPUTER)}
    ELSE ai_random(b)

(* ai_genious going on to ai_smart after a block (the last else missing) *)
ai_genious_BlockThenSmart(b) ==
    IF b[1][1] = EMPTY THEN {Put(b, 1, 1, COMPUTER)}
    ELSE LET c == computerCanWin(b)
         IN  IF c[1] >= 0 /\ c[2] >= 0 THEN {Put(b, c[1], c[2], COMPUTER)}
             ELSE LET c2 == userCanWin(b)
                  IN  IF c2[1] >= 0 /\ c2[2] >= 0
                      THEN ai_smart(Put(b, c2[1], c2[2], COMPUTER))
                      ELSE ai_smart(b)

(* ai_genious trying the win before the centre *)
ai_genious_WinBeforeCentre(b) ==
    LET c == computerCanWin(b)
    IN  IF c[1] >= 0 /\ c[2] >= 0 THEN {Put(b, c[1], c[2], COMPUTER)}
        ELSE IF b[1][1] = EMPTY THEN {Put(b, 1, 1, COMPUTER)}
        ELSE LET c2 == userCanWin(b)
             IN  IF c2[1] >= 0 /\ c2[2] >= 0
                 THEN {Put(b, c2[1], c2[2], COMPUTER)}
                 ELSE ai_smart(b)

(* ai_genious trying the block before the win *)
ai_genious_BlockBeforeWin(b) ==
    IF b[1][1] = EMPTY THEN {Put(b, 1, 1, COMPUTER)}
    ELSE LET c2 == userCanWin(b)
         IN  IF c2[1] >= 0 /\ c2[2] >= 0 THEN {Put(b, c2[1], c2[2], COMPUTER)}
             ELSE LET c == computerCanWin(b)
                  IN  IF c[1] >= 0 /\ c[2] >= 0
                      THEN {Put(b, c[1], c[2], COMPUTER)}
                      ELSE ai_smart(b)

(* ai_genious without the centre rule: win, else block, else ai_smart *)
ai_genious_NoCentreRule(b) ==
    LET c == computerCanWin(b)
    IN  IF c[1] >= 0 /\ c[2] >= 0 THEN {Put(b, c[1], c[2], COMPUTER)}
        ELSE LET c2 == userCanWin(b)
             IN  IF c2[1] >= 0 /\ c2[2] >= 0
                 THEN {Put(b, c2[1], c2[2], COMPUTER)}
                 ELSE ai_smart(b)

(* ai_genious without the block: centre, else win, else ai_smart *)
ai_genious_NoBlock(b) ==
    IF b[1][1] = EMPTY THEN {Put(b, 1, 1, COMPUTER)}
    ELSE LET c == computerCanWin(b)
         IN  IF c[1] >= 0 /\ c[2] >= 0 THEN {Put(b, c[1], c[2], COMPUTER)}
             ELSE ai_smart(b)

(* ai_genious: centre, else win, else block, else ai_smart *)
ai_genious(b) ==
    IF b[1][1] = EMPTY THEN {Put(b, 1, 1, COMPUTER)}
    ELSE LET c == computerCanWin(b)
         IN  IF c[1] >= 0 /\ c[2] >= 0 THEN {Put(b, c[1], c[2], COMPUTER)}
             ELSE LET c2 == userCanWin(b)
                  IN  IF c2[1] >= 0 /\ c2[2] >= 0
                      THEN {Put(b, c2[1], c2[2], COMPUTER)}
                      ELSE ai_smart(b)

(* nextComputerMove: switch (strategy) *)
nextComputerMove(b, strategy) ==
    IF strategy = SMART THEN ai_smart(b)
    ELSE IF strategy = GENIOUS THEN ai_genious(b)
    ELSE ai_random(b)

(* nextPlayerMove without the test of lines 119-124: any cell in range is  *)
(* accepted, taken or not                                                  *)
nextPlayerMove_NoEmptyTest(b) ==
    { Put(b, rc[1], rc[2], USER) : rc \in Idx \X Idx }

(* nextPlayerMove: the loop ends only on a row in 0..2, a column in A..C   *)
(* and an empty cell; that cell becomes USER.                              *)
nextPlayerMove(b) ==
    { Put(b, row, col, USER) :
        <<row, col>> \in { rc \in Idx \X Idx : b[rc[1]][rc[2]] = EMPTY } }

----------------------------------------------------------------------------
VARIABLES
    board,       \* int board[3][3]
    gameStatus,  \* main: int gameStatus
    playerTurn,  \* main: bool playerTurn
    pc,          \* position in main: "loop", "done"; "call" in SpecFn
    pre,         \* the board as it was when the last function was entered
    op,          \* the last function called
    arg,         \* its int argument (which / strategy), 0 if none
    ret,         \* its return value (status or Cell), NoCell for void
    turns        \* main: number of iterations of the game loop completed

vars == <<board, gameStatus, playerTurn, pc, pre, op, arg, ret, turns>>

----------------------------------------------------------------------------
(* main, lines 382-398 *)
Init ==
    /\ board = EmptyBoard
    /\ gameStatus = IN_PROGRESS
    /\ playerTurn \in BOOLEAN
    /\ pc = "loop"
    /\ pre = EmptyBoard
    /\ op = "main"
    /\ arg = 0
    /\ ret = NoCell
    /\ turns = 0

(* main, lines 401-425: one iteration with playerTurn true *)
UserTurn ==
    /\ pc = "loop"
    /\ gameStatus = IN_PROGRESS
    /\ playerTurn
    /\ \E nb \in nextPlayerMove(board) :
          /\ board' = nb
          /\ gameStatus' = isGameOver(nb)
    /\ playerTurn' = FALSE
    /\ pre' = board
    /\ op' = "nextPlayerMove"
    /\ arg' = 0
    /\ ret' = NoCell
    /\ pc' = "loop"
    /\ turns' = turns + 1

(* the loop calling nextComputerMove(board, SMART) *)
ComputerTurn_Smart ==
    /\ pc = "loop"
    /\ gameStatus = IN_PROGRESS
    /\ ~playerTurn
    /\ \E nb \in nextComputerMove(board, SMART) :
          /\ board' = nb
          /\ gameStatus' = isGameOver(nb)
    /\ playerTurn' = TRUE
    /\ pre' = board
    /\ op' = "nextComputerMove"
    /\ arg' = SMART
    /\ ret' = NoCell
    /\ pc' = "loop"
    /\ turns' = turns + 1

(* main, lines 401-425: one iteration with playerTurn false *)
ComputerTurn ==
    /\ pc = "loop"
    /\ gameStatus = IN_PROGRESS
    /\ ~playerTurn
    /\ \E nb \in nextComputerMove(board, GENIOUS) :
          /\ board' = nb
          /\ gameStatus' = isGameOver(nb)
    /\ playerTurn' = TRUE
    /\ pre' = board
    /\ op' = "nextComputerMove"
    /\ arg' = GENIOUS
    /\ ret' = NoCell
    /\ pc' = "loop"
    /\ turns' = turns + 1

(* main, lines 427-438: the loop is left and the result printed *)
GameEnd ==
    /\ pc = "loop"
    /\ gameStatus # IN_PROGRESS
    /\ pc' = "done"
    /\ UNCHANGED <<board, gameStatus, playerTurn, pre, op, arg, ret, turns>>

Next == UserTurn \/ ComputerTurn \/ GameEnd

Spec == Init /\ [][Next]_vars

(* The process keeps running: the user eventually types a valid Empty cell *)
(* and the sampling in ai_random eventually hits an Empty cell, so a step  *)
(* of main that can be taken is taken.                                     *)
FairSpec == Spec /\ WF_vars(Next)

----------------------------------------------------------------------------
(* One call of one function on an arbitrary board.                         *)
InitFn ==
    /\ board \in Boards
    /\ pre = board
    /\ gameStatus = IN_PROGRESS
    /\ playerTurn = FALSE
    /\ pc = "call"
    /\ op = "none"
    /\ arg = 0
    /\ ret = NoCell
    /\ turns = 0

Returned(name, a, nb, r) ==
    /\ pre' = board
    /\ board' = nb
    /\ op' = name
    /\ arg' = a
    /\ ret' = r
    /\ UNCHANGED <<gameStatus, playerTurn, pc, turns>>

(* isGameOver with `=` for `==` in the scan of line 353: when nobody has   *)
(* won every cell is set to EMPTY (0), the test is false, DRAW is returned *)
Call_isGameOver_AssignInScan ==
    /\ pc = "call" /\ op = "none"
    /\ IF PlayerWon(board, USER) \/ PlayerWon(board, COMPUTER)
       THEN Returned("isGameOver", 0, board, isGameOver(board))
       ELSE Returned("isGameOver", 0, EmptyBoard, DRAW)

(* isGameOver reads the board and writes no cell *)
Call_isGameOver ==
    /\ pc = "call" /\ op = "none"
    /\ Returned("isGameOver", 0, board, isGameOver(board))

(* a second call of isGameOver on the board the first call left behind;    *)
(* ret keeps the first status next to the second                           *)
Call_isGameOver_again ==
    /\ pc = "call" /\ op = "isGameOver"
    /\ Returned("isGameOver_again", 0, board, <<ret, isGameOver(board)>>)

Call_playerCanWin ==
    /\ pc = "call" /\ op = "none"
    /\ \E which \in Players :
          Returned("playerCanWin", which, board, playerCanWin(board, which))

Call_ai_random ==
    /\ pc = "call" /\ op = "none"
    /\ \E nb \in ai_random(board) : Returned("ai_random", 0, nb, NoCell)

Call_ai_smart ==
    /\ pc = "call" /\ op = "none"
    /\ \E nb \in ai_smart(board) : Returned("ai_smart", 0, nb, NoCell)

Call_ai_genious ==
    /\ pc = "call" /\ op = "none"
    /\ \E nb \in ai_genious(board) : Returned("ai_genious", 0, nb, NoCell)

Call_nextComputerMove ==
    /\ pc = "call" /\ op = "none"
    /\ \E strategy \in Strategies :
          \E nb \in nextComputerMove(board, strategy) :
              Returned("nextComputerMove", strategy, nb, NoCell)

NextFn ==
    \/ Call_isGameOver
    \/ Call_isGameOver_again
    \/ Call_playerCanWin
    \/ Call_ai_random
    \/ Call_ai_smart
    \/ Call_ai_genious
    \/ Call_nextComputerMove

SpecFn == InitFn /\ [][NextFn]_vars

----------------------------------------------------------------------------
(* One call of one strategy on an arbitrary board, with the do-while loop  *)
(* of ai_random taken one iteration at a time.  pc is "entry" before the   *)
(* call, "sample" while the loop of ai_random runs and "returned" after    *)
(* the strategy has returned; ret holds (row, col), the last sample.       *)
InitLoop ==
    /\ board \in Boards
    /\ pre = board
    /\ gameStatus = IN_PROGRESS
    /\ playerTurn = FALSE
    /\ pc = "entry"
    /\ op = "none"
    /\ arg = 0
    /\ ret = NoCell
    /\ turns = 0

(* ai_smart, lines 160-172: centre and corners taken, ai_random is called *)
SmartFallsBack(b) ==
    /\ b[1][1] # EMPTY
    /\ b[0][0] # EMPTY /\ b[0][2] # EMPTY
    /\ b[2][0] # EMPTY /\ b[2][2] # EMPTY

(* ai_genious, lines 244-266: no centre, no win, no block, and ai_smart    *)
(* goes on to ai_random                                                    *)
GeniousFallsBack(b) ==
    /\ b[1][1] # EMPTY
    /\ ~(computerCanWin(b)[1] >= 0 /\ computerCanWin(b)[2] >= 0)
    /\ ~(userCanWin(b)[1] >= 0 /\ userCanWin(b)[2] >= 0)
    /\ SmartFallsBack(b)

(* ai_random is entered: the loop is all it does *)
Enter_ai_random ==
    /\ pc = "entry"
    /\ op' = "ai_random"
    /\ pc' = "sample"
    /\ UNCHANGED <<board, pre, gameStatus, playerTurn, arg, ret, turns>>

(* ai_smart up to its return or to the loop of ai_random *)
Enter_ai_smart ==
    /\ pc = "entry"
    /\ op' = "ai_smart"
    /\ IF SmartFallsBack(board)
       THEN pc' = "sample" /\ board' = board
       ELSE pc' = "returned" /\ board' \in ai_smart(board)
    /\ UNCHANGED <<pre, gameStatus, playerTurn, arg, ret, turns>>

(* ai_genious up to its return or to the loop of ai_random *)
Enter_ai_genious ==
    /\ pc = "entry"
    /\ op' = "ai_genious"
    /\ IF GeniousFallsBack(board)
       THEN pc' = "sample" /\ board' = board
       ELSE pc' = "returned" /\ board' \in ai_genious(board)
    /\ UNCHANGED <<pre, gameStatus, playerTurn, arg, ret, turns>>

(* ai_random, lines 139-142: an iteration whose sample is a taken cell *)
Sample_Retry ==
    /\ pc = "sample"
    /\ \E row \in Idx : \E col \in Idx :
          /\ board[row][col] # EMPTY
          /\ ret' = Cell(row, col)
    /\ UNCHANGED <<board, pre, gameStatus, playerTurn, pc, op, arg, turns>>

(* ai_random, lines 139-145: the iteration whose sample is an EMPTY cell,  *)
(* and the write after the loop                                            *)
Sample_Claim ==
    /\ pc = "sample"
    /\ \E nb \in ai_random(board) :
          /\ board' = nb
          /\ ret' = CHOOSE rc \in Idx \X Idx : board[rc[1]][rc[2]] # nb[rc[1]][rc[2]]
    /\ pc' = "returned"
    /\ UNCHANGED <<pre, gameStatus, playerTurn, op, arg, turns>>

NextLoop ==
    \/ Enter_ai_random
    \/ Enter_ai_smart
    \/ Enter_ai_genious
    \/ Sample_Retry
    \/ Sample_Claim

(* The process keeps running, and the sampling is fair: an EMPTY cell that *)
(* stays available is eventually sampled.                                  *)
SpecLoop ==
    InitLoop /\ [][NextLoop]_vars /\ WF_vars(NextLoop) /\ WF_vars(Sample_Claim)

----------------------------------------------------------------------------
(* Vocabulary of the properties: the 8 lines in the order rows 0-2,        *)
(* columns 0-2, main diagonal, anti-diagonal, each as its three cells.     *)
LineSeq ==
    << << <<0,0>>, <<0,1>>, <<0,2>> >>,
       << <<1,0>>, <<1,1>>, <<1,2>> >>,
       << <<2,0>>, <<2,1>>, <<2,2>> >>,
       << <<0,0>>, <<1,0>>, <<2,0>> >>,
       << <<0,1>>, <<1,1>>, <<2,1>> >>,
       << <<0,2>>, <<1,2>>, <<2,2>> >>,
       << <<0,0>>, <<1,1>>, <<2,2>> >>,
       << <<0,2>>, <<1,1>>, <<2,0>> >> >>

LineIds == 1..8

At(b, cell) == b[cell[1]][cell[2]]

Owns(b, p, i) == \A k \in 1..3 : At(b, LineSeq[i][k]) = p

HasLine(b, p) == \E i \in LineIds : Owns(b, p, i)

CountOn(b, i, v) == Cardinality({k \in 1..3 : At(b, LineSeq[i][k]) = v})

(* two cells of line i are p's and the third is Empty *)
Winnable(b, p, i) == CountOn(b, i, p) = 2 /\ CountOn(b, i, EMPTY) = 1

CanWinInOne(b, p) == \E i \in LineIds : Winnable(b, p, i)

FirstWinnable(b, p) ==
    CHOOSE i \in LineIds :
        Winnable(b, p, i) /\ \A j \in LineIds : Winnable(b, p, j) => i <= j

EmptyCellOn(b, i) ==
    LineSeq[i][CHOOSE k \in 1..3 : At(b, LineSeq[i][k]) = EMPTY]

LineSum(b, i) ==
    At(b, LineSeq[i][1]) + At(b, LineSeq[i][2]) + At(b, LineSeq[i][3])

Full(b) == \A r \in Idx : \A c \in Idx : b[r][c] # EMPTY

Changed(b1, b2) == { rc \in Idx \X Idx : At(b1, rc) # At(b2, rc) }

IsStrategyCall ==
    op \in {"ai_random", "ai_smart", "ai_genious", "nextComputerMove"}

----------------------------------------------------------------------------
(* C1: isGameOver returns USER_WON exactly when USER owns one of the 8     *)
(* lines, and COMPUTER_WON exactly when COMPUTER owns one and USER owns    *)
(* none; a board with a complete line is never reported as DRAW or         *)
(* IN_PROGRESS, whether or not it is full.                                 *)
C1_WinExactlyOnLine ==
    op = "isGameOver" =>
        /\ (ret = USER_WON) <=> HasLine(pre, USER)
        /\ (ret = COMPUTER_WON) <=>
              (HasLine(pre, COMPUTER) /\ ~HasLine(pre, USER))
        /\ (HasLine(pre, USER) \/ HasLine(pre, COMPUTER))
              => ret \notin {DRAW, IN_PROGRESS}

(* a full board whose only complete line is COMPUTER's anti-diagonal *)
C1_Witness ==
    /\ op = "isGameOver"
    /\ Full(pre)
    /\ ret = COMPUTER_WON
    /\ \A i \in LineIds : Owns(pre, COMPUTER, i) <=> i = 8

(* C2: with no complete line for either player, isGameOver returns DRAW on *)
(* a full board and IN_PROGRESS when some cell is Empty.                   *)
C2_DrawOrInProgress ==
    (op = "isGameOver" /\ ~HasLine(pre, USER) /\ ~HasLine(pre, COMPUTER)) =>
        ret = (IF Full(pre) THEN DRAW ELSE IN_PROGRESS)

(* no line, and the only Empty cell is (2,2), the last one scanned *)
C2_Witness ==
    /\ op = "isGameOver"
    /\ ~HasLine(pre, USER) /\ ~HasLine(pre, COMPUTER)
    /\ ret = IN_PROGRESS
    /\ \A rc \in Idx \X Idx : At(pre, rc) = EMPTY <=> rc = <<2, 2>>

(* C3: playerCanWin(board, p) returns a real coordinate iff some line has  *)
(* exactly two cells of p and one Empty cell, and the sum test             *)
(* (line sum = 2*p) accepts exactly those lines.                           *)
C3_CellIffWinnable ==
    op = "playerCanWin" =>
        /\ (ret # NoCell) <=> CanWinInOne(pre, arg)
        /\ ret # NoCell => (ret[1] \in Idx /\ ret[2] \in Idx)
        /\ \A i \in LineIds :
              (LineSum(pre, i) = 2 * arg) <=> Winnable(pre, arg, i)

(* the only winnable line is the anti-diagonal, the last one scanned *)
C3_Witness ==
    /\ op = "playerCanWin"
    /\ ret # NoCell
    /\ \A i \in LineIds : Winnable(pre, arg, i) <=> i = 8

(* C4: with several winnable lines, playerCanWin returns the Empty cell of *)
(* the first one in the order row 0,1,2, column 0,1,2, main diagonal,      *)
(* anti-diagonal; that cell is Empty and claiming it completes the line.   *)
C4_FirstInScanOrder ==
    (op = "playerCanWin" /\ CanWinInOne(pre, arg)) =>
        LET i == FirstWinnable(pre, arg)
        IN  /\ ret = EmptyCellOn(pre, i)
            /\ At(pre, ret) = EMPTY
            /\ Owns(Put(pre, ret[1], ret[2], arg), arg, i)

(* a column and a row are both winnable, with different Empty cells *)
C4_Witness ==
    /\ op = "playerCanWin"
    /\ \E i \in 1..3 : \E j \in 4..6 :
          /\ Winnable(pre, arg, i) /\ Winnable(pre, arg, j)
          /\ EmptyCellOn(pre, i) # EmptyCellOn(pre, j)
          /\ ret = EmptyCellOn(pre, i)

(* C5: a strategy call that returns has changed exactly one cell, which    *)
(* was EMPTY and is now COMPUTER; the other eight cells are unchanged.     *)
C5_ExactlyOneCell ==
    IsStrategyCall =>
        \E rc \in Idx \X Idx :
            /\ At(pre, rc) = EMPTY
            /\ board = Put(pre, rc[1], rc[2], COMPUTER)
            /\ Changed(pre, board) = {rc}

(* ai_genious fell through to ai_smart and on to ai_random: centre and     *)
(* corners taken, nobody can win in one, an edge cell was claimed          *)
C5_Witness ==
    /\ op = "ai_genious"
    /\ \A rc \in {<<1,1>>, <<0,0>>, <<0,2>>, <<2,0>>, <<2,2>>} :
          At(pre, rc) # EMPTY
    /\ ~CanWinInOne(pre, USER) /\ ~CanWinInOne(pre, COMPUTER)
    /\ Cardinality(Changed(pre, board)) = 1

(* C6: when the centre (1,1) is Empty, ai_genious claims it, whatever      *)
(* winning or blocking cells exist elsewhere.                              *)
C6_CentreFirst ==
    (op = "ai_genious" /\ pre[1][1] = EMPTY) =>
        board = Put(pre, 1, 1, COMPUTER)

(* the centre is Empty while COMPUTER could win and USER could be blocked  *)
(* on lines that do not pass through the centre                            *)
C6_Witness ==
    /\ op = "ai_genious"
    /\ pre[1][1] = EMPTY
    /\ \E i \in {1, 3, 4, 6} : Winnable(pre, COMPUTER, i)
    /\ \E i \in {1, 3, 4, 6} : Winnable(pre, USER, i)
    /\ board[1][1] = COMPUTER

(* the boards of C7: centre taken, both players can win in one *)
C7_Case ==
    /\ op = "ai_genious"
    /\ pre[1][1] # EMPTY
    /\ CanWinInOne(pre, COMPUTER)
    /\ CanWinInOne(pre, USER)

(* C7 as stated: on every board with the centre taken where both players   *)
(* can win in one, ai_genious claims playerCanWin's cell for COMPUTER,     *)
(* isGameOver then returns COMPUTER_WON, and the cell playerCanWin returns *)
(* for USER is not the one claimed.                                        *)
C7_Original ==
    C7_Case =>
        LET cw == playerCanWin(pre, COMPUTER)
            uw == playerCanWin(pre, USER)
        IN  /\ board = Put(pre, cw[1], cw[2], COMPUTER)
            /\ isGameOver(board) = COMPUTER_WON
            /\ board # Put(pre, uw[1], uw[2], COMPUTER)

(* C7, amended: on every such board ai_genious claims playerCanWin's cell  *)
(* for COMPUTER and completes a COMPUTER line; isGameOver then returns     *)
(* COMPUTER_WON unless USER already owned a complete line (then USER_WON); *)
(* USER's blocking cell stays Empty unless it is that same cell.           *)
C7_WinBeforeBlock ==
    C7_Case =>
        LET cw == playerCanWin(pre, COMPUTER)
            uw == playerCanWin(pre, USER)
        IN  /\ board = Put(pre, cw[1], cw[2], COMPUTER)
            /\ Owns(board, COMPUTER, FirstWinnable(pre, COMPUTER))
            /\ isGameOver(board) =
                  (IF HasLine(pre, USER) THEN USER_WON ELSE COMPUTER_WON)
            /\ uw # cw => At(board, uw) = EMPTY

(* both can win, on different cells; the win is taken, the block is not *)
C7_Witness ==
    /\ C7_Case
    /\ ~HasLine(pre, USER)
    /\ playerCanWin(pre, USER) # playerCanWin(pre, COMPUTER)
    /\ At(board, playerCanWin(pre, USER)) = EMPTY
    /\ isGameOver(board) = COMPUTER_WON

(* C8: centre taken, COMPUTER cannot win in one, USER can: ai_genious      *)
(* claims the cell playerCanWin returns for USER, and the first winnable   *)
(* USER line in scan order then holds a COMPUTER cell.                     *)
C8_Block ==
    (/\ op = "ai_genious"
     /\ pre[1][1] # EMPTY
     /\ ~CanWinInOne(pre, COMPUTER)
     /\ CanWinInOne(pre, USER)) =>
        LET uw == playerCanWin(pre, USER)
            i  == FirstWinnable(pre, USER)
        IN  /\ board = Put(pre, uw[1], uw[2], COMPUTER)
            /\ CountOn(board, i, COMPUTER) = 1
            /\ CountOn(board, i, EMPTY) = 0
            /\ ~Winnable(board, USER, i)

(* a block on a line that is not a row, with a free corner left over *)
C8_Witness ==
    /\ op = "ai_genious"
    /\ pre[1][1] # EMPTY
    /\ ~CanWinInOne(pre, COMPUTER)
    /\ CanWinInOne(pre, USER)
    /\ FirstWinnable(pre, USER) = 8
    /\ pre[0][0] = EMPTY
    /\ board[0][0] = EMPTY

(* the board of C9: USER at (0,0) and (0,1), the other seven cells Empty *)
C9_Board == Put(Put(EmptyBoard, 0, 0, USER), 0, 1, USER)

(* C9 as stated: on that board ai_genious claims (0,2).                    *)
C9_Original ==
    (op = "ai_genious" /\ pre = C9_Board) =>
        board = Put(pre, 0, 2, COMPUTER)

(* C9, amended: on that board ai_genious claims the centre (1,1) and       *)
(* leaves (0,2) Empty; on the same board with the centre already taken by  *)
(* either player it claims (0,2).                                          *)
C9_CentreThenBlock ==
    op = "ai_genious" =>
        /\ pre = C9_Board =>
              (board = Put(pre, 1, 1, COMPUTER) /\ board[0][2] = EMPTY)
        /\ \A p \in Players :
              pre = Put(C9_Board, 1, 1, p) =>
                  board = Put(pre, 0, 2, COMPUTER)

C9_Witness ==
    /\ op = "ai_genious"
    /\ pre = C9_Board
    /\ board[1][1] = COMPUTER

(* the boards of C10: COMPUTER can win in one, USER cannot *)
C10_Case ==
    /\ op = "ai_genious"
    /\ CanWinInOne(pre, COMPUTER)
    /\ ~CanWinInOne(pre, USER)

(* the call completed a COMPUTER line *)
C10_Completed ==
    \E i \in LineIds : Owns(board, COMPUTER, i) /\ ~Owns(pre, COMPUTER, i)

(* C10 as stated: whenever COMPUTER can win in one and USER cannot,        *)
(* ai_genious claims a cell that completes a COMPUTER line.                *)
C10_Original == C10_Case => C10_Completed

(* C10, amended: ... provided the centre is not Empty, or the centre is    *)
(* itself the Empty third cell of such a COMPUTER line.                    *)
C10_WinNow ==
    (/\ C10_Case
     /\ \/ pre[1][1] # EMPTY
        \/ \E i \in LineIds :
              Winnable(pre, COMPUTER, i) /\ EmptyCellOn(pre, i) = <<1, 1>>)
        => C10_Completed

(* centre taken by USER, COMPUTER completes a line that is not a row *)
C10_Witness ==
    /\ C10_Case
    /\ pre[1][1] = USER
    /\ \A i \in 1..3 : ~Winnable(pre, COMPUTER, i)
    /\ C10_Completed

----------------------------------------------------------------------------
CornerSeq == << <<0,0>>, <<0,2>>, <<2,0>>, <<2,2>> >>

EdgeCells == { <<0,1>>, <<1,0>>, <<1,2>>, <<2,1>> }

(* nb is b after the move the preference order asks for: the centre, else  *)
(* the first Empty corner of CornerSeq, else some Empty edge cell          *)
SmartChoice(b, nb) ==
    IF At(b, <<1,1>>) = EMPTY THEN nb = Put(b, 1, 1, COMPUTER)
    ELSE IF \E k \in 1..4 : At(b, CornerSeq[k]) = EMPTY
    THEN LET k == CHOOSE k \in 1..4 :
                    /\ At(b, CornerSeq[k]) = EMPTY
                    /\ \A j \in 1..4 : At(b, CornerSeq[j]) = EMPTY => k <= j
         IN  nb = Put(b, CornerSeq[k][1], CornerSeq[k][2], COMPUTER)
    ELSE \E e \in EdgeCells :
            At(b, e) = EMPTY /\ nb = Put(b, e[1], e[2], COMPUTER)

(* C11: ai_smart claims (1,1) if Empty, else the first Empty corner in the *)
(* order (0,0), (0,2), (2,0), (2,2), else an Empty edge cell; ai_genious   *)
(* makes this choice when the centre is taken and nobody can win in one.   *)
C11_SmartPreference ==
    /\ op = "ai_smart" => SmartChoice(pre, board)
    /\ (/\ op = "ai_genious"
        /\ pre[1][1] # EMPTY
        /\ ~CanWinInOne(pre, USER)
        /\ ~CanWinInOne(pre, COMPUTER)) => SmartChoice(pre, board)

(* ai_genious reached ai_smart, whose first free corner was the third one *)
C11_Witness ==
    /\ op = "ai_genious"
    /\ pre[1][1] # EMPTY /\ pre[0][0] # EMPTY /\ pre[0][2] # EMPTY
    /\ pre[2][0] = EMPTY /\ pre[2][2] = EMPTY
    /\ ~CanWinInOne(pre, USER) /\ ~CanWinInOne(pre, COMPUTER)
    /\ board = Put(pre, 2, 0, COMPUTER)

----------------------------------------------------------------------------
(* the game loop is about to call nextPlayerMove or nextComputerMove *)
AboutToMove == pc = "loop" /\ gameStatus = IN_PROGRESS

NonEmptyCells(b) == { rc \in Idx \X Idx : At(b, rc) # EMPTY }

MarksOf(b, p) == { rc \in Idx \X Idx : At(b, rc) = p }

(* C13: in the game loop nextComputerMove and nextPlayerMove are only ever *)
(* invoked on a board with at least one Empty cell, whoever moves first.   *)
C13_MoveOnlyWithEmptyCell ==
    /\ AboutToMove => ~Full(board)
    /\ op \in {"nextPlayerMove", "nextComputerMove"} => ~Full(pre)

(* the computer is about to be asked for the ninth move *)
C13_Witness ==
    /\ AboutToMove
    /\ ~playerTurn
    /\ Cardinality(NonEmptyCells(board)) = 8

(* C14: if the user always eventually supplies a valid cell and sampling  *)
(* is fair, the game ends after at most 9 moves, and on leaving the loop   *)
(* gameStatus is USER_WON, COMPUTER_WON or DRAW.                           *)
C14_Terminates ==
    /\ <>(pc = "done")
    /\ [](turns <= 9)
    /\ [](pc = "done" => gameStatus \in {USER_WON, COMPUTER_WON, DRAW})

(* a game that took all nine moves and ended in a draw *)
C14_Witness ==
    /\ pc = "done"
    /\ turns = 9
    /\ gameStatus = DRAW

(* the mark of the player whose turn it is *)
Mover == IF playerTurn THEN USER ELSE COMPUTER

(* C15: the board starts Empty; every turn changes exactly one cell from   *)
(* EMPTY to the mover's mark and no other cell; so after k turns exactly k *)
(* cells are non-Empty and the two players' counts differ by at most one.  *)
C15_OneCellPerTurn ==
    /\ [](turns = 0 => board = EmptyBoard)
    /\ [](/\ Cardinality(NonEmptyCells(board)) = turns
          /\ Cardinality(MarksOf(board, USER))
               - Cardinality(MarksOf(board, COMPUTER)) \in {-1, 0, 1})
    /\ [][(board' # board \/ turns' # turns) =>
             /\ turns' = turns + 1
             /\ \E rc \in Idx \X Idx :
                   /\ At(board, rc) = EMPTY
                   /\ board' = Put(board, rc[1], rc[2], Mover)
             /\ \A rc \in NonEmptyCells(board) : At(board', rc) = At(board, rc)
          ]_vars

(* five turns played: three marks of one player, two of the other *)
C15_Witness ==
    /\ turns = 5
    /\ Cardinality(MarksOf(board, COMPUTER)) = 3
    /\ Cardinality(MarksOf(board, USER)) = 2
    /\ op = "nextComputerMove"

(* C16: ai_random on a board with an Empty cell eventually returns under  *)
(* fair sampling, having claimed a cell that was Empty; every Empty cell   *)
(* is a possible choice.                                                   *)
C16_RandomTerminates ==
    /\ (op = "ai_random" /\ pc = "sample" /\ ~Full(board)) ~> (pc = "returned")
    /\ [](op = "ai_random" /\ pc = "returned" =>
            /\ At(pre, ret) = EMPTY
            /\ board = Put(pre, ret[1], ret[2], COMPUTER))
    /\ [](op = "ai_random" /\ pc = "sample" =>
            \A rc \in Idx \X Idx :
                At(board, rc) = EMPTY =>
                    Put(board, rc[1], rc[2], COMPUTER) \in ai_random(board))

(* the only Empty cell, (2,2), was found *)
C16_Witness ==
    /\ op = "ai_random"
    /\ pc = "returned"
    /\ NonEmptyCells(pre) = (Idx \X Idx) \ {<<2, 2>>}
    /\ board[2][2] = COMPUTER

(* C18 as stated: a strategy invoked on a board with no Empty cell stops   *)
(* with a fatal failure and leaves the board unchanged.                    *)
C18_Original ==
    (op \in {"ai_random", "ai_smart", "ai_genious"} /\ Full(pre))
        ~> (pc = "failed" /\ board = pre)

(* C17: in every state reachable in the game loop at most one player owns *)
(* a complete line, and the status names that player.                      *)
C17_OneWinner ==
    /\ ~(HasLine(board, USER) /\ HasLine(board, COMPUTER))
    /\ HasLine(board, USER) => gameStatus = USER_WON
    /\ HasLine(board, COMPUTER) => gameStatus = COMPUTER_WON

(* the computer completed a line while the user was one move from theirs *)
C17_Witness ==
    /\ HasLine(board, COMPUTER)
    /\ CanWinInOne(board, USER)
    /\ gameStatus = COMPUTER_WON

(* C19: in a game with the Genius strategy, when it is the computer's     *)
(* turn and the centre is Empty the board holds at most one mark and       *)
(* nobody can win in one; and when COMPUTER can win in one at its turn,    *)
(* the game is COMPUTER_WON right after that move.                         *)
C19_CentreRuleCostsNothing ==
    /\ []((AboutToMove /\ ~playerTurn /\ board[1][1] = EMPTY) =>
            /\ Cardinality(NonEmptyCells(board)) <= 1
            /\ ~CanWinInOne(board, USER)
            /\ ~CanWinInOne(board, COMPUTER))
    /\ [][(AboutToMove /\ ~playerTurn /\ CanWinInOne(board, COMPUTER)) =>
             (gameStatus' = COMPUTER_WON /\ HasLine(board', COMPUTER))]_vars

(* the computer took its win although the user threatened a line too *)
C19_Witness ==
    /\ op = "nextComputerMove"
    /\ pre[1][1] # EMPTY
    /\ CanWinInOne(pre, COMPUTER)
    /\ CanWinInOne(pre, USER)
    /\ gameStatus = COMPUTER_WON

(* the cells with which p would complete a line on b *)
WinningCells(b, p) ==
    { EmptyCellOn(b, i) : i \in { j \in LineIds : Winnable(b, p, j) } }

(* C20: Genius does not guarantee a non-loss.  A state with status         *)
(* USER_WON is reachable (C20_Witness); it is reached by a user move that  *)
(* completes a line, and Genius leaves a USER threat standing after its    *)
(* move only when USER had two or more winning cells, of which it blocks   *)
(* one.                                                                    *)
C20_LossByDoubleThreat ==
    /\ [](gameStatus = USER_WON =>
            /\ op = "nextPlayerMove"
            /\ HasLine(board, USER) /\ ~HasLine(pre, USER)
            /\ Cardinality(WinningCells(pre, USER)) >= 1)
    /\ [][(/\ AboutToMove /\ ~playerTurn
           /\ gameStatus' = IN_PROGRESS
           /\ CanWinInOne(board', USER)) =>
             /\ Cardinality(WinningCells(board, USER)) >= 2
             /\ Cardinality(WinningCells(board', USER))
                  = Cardinality(WinningCells(board, USER)) - 1]_vars

(* the user moved first and has won; the game is over *)
C20_Witness ==
    /\ pc = "done"
    /\ gameStatus = USER_WON
    /\ turns % 2 = 1
    /\ HasLine(board, USER)

====
